---- MODULE Spec2Model ----
(***************************************************************************)
(* Block construction and proof-of-work sealing of src/block.rs.          *)
(*                                                                         *)
(* Strings are sequences of one-character strings, so that the digest      *)
(* input built by format! is computed character by character.  SHA-512 is  *)
(* a memoised oracle: the first time a string is hashed any output may     *)
(* come back, and from then on the same string hashes to the same output.  *)
(* The u128 nonce counter is narrowed to the range 0..MaxNonce.            *)
(***************************************************************************)
EXTENDS Integers, Sequences, FiniteSets, TLC

(* ------------------------------ bounds -------------------------------- *)

\* the largest value of the (narrowed) nonce counter, standing for u128::MAX
MaxNonce == 2
\* the clock reads 0..MaxTime
MaxTime == 1
\* the caller supplies an index in 0..MaxIndex
MaxIndex == 1
\* the caller keeps at most MaxBlocks returned blocks
MaxBlocks == 2

(* ------------------------- program constants -------------------------- *)

\* [u8; 64]
HashLen == 64
\* the marker byte of the proof of work, [69, 69]
Marker == 69

(* ------------------------------ strings ------------------------------- *)

Digit(d) == CASE d = 0 -> "0" [] d = 1 -> "1" [] d = 2 -> "2" [] d = 3 -> "3"
              [] d = 4 -> "4" [] d = 5 -> "5" [] d = 6 -> "6" [] d = 7 -> "7"
              [] d = 8 -> "8" [] d = 9 -> "9"

\* Display of an unsigned integer: its decimal digits
RECURSIVE DisplayInt(_)
DisplayInt(n) == IF n < 10 THEN <<Digit(n)>>
                 ELSE DisplayInt(n \div 10) \o <<Digit(n % 10)>>

\* Debug of a byte array: "[b1, b2, ..., bn]"; the elements lo..hi of a
RECURSIVE DebugBytesRange(_, _, _)
DebugBytesRange(a, lo, hi) ==
    IF lo > hi THEN <<>>
    ELSE IF lo = hi
    THEN (IF lo = 1 THEN <<>> ELSE <<",", " ">>) \o DisplayInt(a[lo])
    ELSE DebugBytesRange(a, lo, (lo + hi) \div 2)
         \o DebugBytesRange(a, (lo + hi) \div 2 + 1, hi)

DebugBytes(a) == <<"[">> \o DebugBytesRange(a, 1, Len(a)) \o <<"]">>

\* Debug of a String: the text in double quotes, with \" and \\ escaped; the
\* characters lo..hi of s
RECURSIVE EscapeRange(_, _, _)
EscapeRange(s, lo, hi) ==
    IF lo > hi THEN <<>>
    ELSE IF lo = hi
    THEN (IF s[lo] = "\"" \/ s[lo] = "\\" THEN <<"\\", s[lo]>> ELSE <<s[lo]>>)
    ELSE EscapeRange(s, lo, (lo + hi) \div 2)
         \o EscapeRange(s, (lo + hi) \div 2 + 1, hi)

DebugStr(s) == <<"\"">> \o EscapeRange(s, 1, Len(s)) \o <<"\"">>

\* Debug of a DateTime<Utc> whose instant is t seconds into the epoch minute
DebugTime(t) ==
    <<"1", "9", "7", "0", "-", "0", "1", "-", "0", "1", "T",
      "0", "0", ":", "0", "0", ":">>
    \o (IF t < 10 THEN <<"0">> ELSE <<>>) \o DisplayInt(t) \o <<"Z">>

(* ------------------------------- values ------------------------------- *)

\* a 64-byte array whose first two bytes are a and b, the rest c
Bytes(a, b, c) == [i \in 1..HashLen |-> IF i = 1 THEN a ELSE IF i = 2 THEN b ELSE c]

\* [0; 64]
ZeroHash == Bytes(0, 0, 0)

\* the outputs the hash primitive may produce: one that carries the marker
\* pair and one that carries the first marker byte only
HashValues == {Bytes(Marker, Marker, 7), Bytes(Marker, 0, 7)}

Transactions == {"t1", "t2"}

\* Transaction::hash: a fixed 64-byte digest of the transaction
TxHash(t) == IF t = "t1" THEN Bytes(1, 1, 1) ELSE Bytes(2, 2, 2)

\* the ordered batches a caller hands over
Batches == {<<>>, <<"t1", "t2">>, <<"t2", "t1">>}

\* the byte arrays that occur, and the Debug text of each, formatted once
ByteArrays == {ZeroHash} \cup HashValues \cup {TxHash(t) : t \in Transactions}

DebugOf == [a \in ByteArrays |-> DebugBytes(a)]

NoBlock == [none |-> TRUE]
NoValue == [op |-> "none"]
NoCall == [via |-> "none"]

(* ------------------------------- state -------------------------------- *)

VARIABLES
    overflowChecks, \* the build: TRUE when integer overflow panics
    now,            \* the last reading of Utc::now()
    pc,             \* "idle", "loop" (inside calculate_hash) or "panicked"
    block,          \* the local `block` of Block::new, NoBlock outside a call
    chain,          \* the blocks returned to the caller, in order
    sha,            \* the hash primitive's outputs so far, by input string
    trace,          \* the (nonce, hash) pairs of the running call's attempts
    runs,           \* per returned block: the call's arguments and trace
    call,           \* the running call: its entry point and arguments
    observed        \* the value the last accessor call returned

vars == <<overflowChecks, now, pc, block, chain, sha, trace, runs, call, observed>>

(* ---------------------------- calculate_hash -------------------------- *)

\* a fold whose closure hands the accumulator back untouched
FoldNothing(acc, txs, i) == acc

\* the fold of line 101: acc <- Debug(acc) ++ Debug(t.hash())
RECURSIVE FoldHashes(_, _, _)
FoldHashes(acc, txs, i) ==
    IF i > Len(txs) THEN acc
    ELSE FoldHashes(DebugStr(acc) \o DebugOf[TxHash(txs[i])], txs, i + 1)

\* the fold of each batch; it reads nothing the loop changes, so it is
\* evaluated once per batch
FoldedHashes == [txs \in Batches |-> FoldHashes(<<>>, txs, 1)]

TransactionsHashes(txs) == FoldedHashes[txs]

\* a digest input that formats self.hash where self.prev_hash belongs
DigestInputOwnHash(b) ==
    DisplayInt(b.index) \o DebugOf[b.hash]
    \o TransactionsHashes(b.transactions) \o DebugTime(b.time)
    \o DisplayInt(b.nonce)

\* the digest input of lines 103-109
DigestInput(b) ==
    DisplayInt(b.index) \o DebugOf[b.prev_hash]
    \o TransactionsHashes(b.transactions) \o DebugTime(b.time)
    \o DisplayInt(b.nonce)

\* a loop condition that compares the first byte only
ProofOfWorkFirstByte(h) == h[1] = Marker

\* the loop condition of line 98, negated: self.hash[0..2] == [69, 69]
ProofOfWork(h) == h[1] = Marker /\ h[2] = Marker

\* self.nonce += 1 on a u128: the sum, or the overflow
Overflows(n) == n + 1 > MaxNonce

\* a hasher seeded afresh for every use: any output, whatever came before
Sha512Seeded(d) == HashValues

\* the hash primitive on input d: the recorded output, or any output at all
\* the first time d is hashed
Sha512(d) == IF d \in DOMAIN sha THEN {sha[d]} ELSE HashValues

\* one iteration of the while loop, lines 98-119
Iterate ==
    /\ pc = "loop"
    /\ ~ProofOfWork(block.hash)
    /\ Len(trace) < MaxNonce + 2
    /\ \E h \in Sha512(DigestInput(block)) :
          /\ sha' = (DigestInput(block) :> h) @@ sha
          /\ trace' = Append(trace, [nonce |-> block.nonce, hash |-> h])
          /\ IF ~Overflows(block.nonce)
                THEN /\ block' = [block EXCEPT !.hash = h, !.nonce = block.nonce + 1]
                     /\ pc' = pc
                ELSE IF overflowChecks
                THEN /\ block' = [block EXCEPT !.hash = h]
                     /\ pc' = "panicked"
                ELSE /\ block' = [block EXCEPT !.hash = h, !.nonce = 0]
                     /\ pc' = pc
    /\ UNCHANGED <<overflowChecks, now, chain, runs, call, observed>>

\* the loop condition fails: calculate_hash returns, and Block::new returns
\* the block (line 56)
Return ==
    /\ pc = "loop"
    /\ ProofOfWork(block.hash)
    /\ chain' = Append(chain, block)
    /\ runs' = Append(runs, [call |-> call, trace |-> trace])
    /\ block' = NoBlock
    /\ trace' = <<>>
    /\ pc' = "idle"
    /\ UNCHANGED <<overflowChecks, now, sha, call, observed>>

(* ------------------------------ Block::new ---------------------------- *)

\* lines 44-54, up to the call of calculate_hash; `via` records the entry
\* point.  Utc::now() reads the clock, which never runs backwards.
BlockNew(index, prev_hash, transactions, via) ==
    /\ pc = "idle"
    /\ Len(chain) < MaxBlocks
    /\ \E t \in now..MaxTime :
          /\ now' = t
          /\ block' = [index |-> index, prev_hash |-> prev_hash,
                       transactions |-> transactions, nonce |-> 0,
                       time |-> t, hash |-> ZeroHash]
    /\ call' = [via |-> via, index |-> index, prev_hash |-> prev_hash,
                transactions |-> transactions]
    /\ trace' = <<>>
    /\ pc' = "loop"
    /\ observed' = NoValue
    /\ UNCHANGED <<overflowChecks, chain, sha, runs>>

\* a Default that numbers the genesis block 1
BlockDefaultIndexOne == BlockNew(1, ZeroHash, <<>>, "default")

\* impl Default, line 125
BlockDefault == BlockNew(0, ZeroHash, <<>>, "default")

(* ------------------------------ accessors ----------------------------- *)

\* a hash() that moves the array out of the block and leaves zeroes behind
BlockHashTake(i) ==
    /\ pc = "idle"
    /\ observed' = [op |-> "hash", of |-> i, value |-> chain[i].hash]
    /\ chain' = [chain EXCEPT ![i].hash = ZeroHash]
    /\ UNCHANGED <<overflowChecks, now, pc, block, sha, trace, runs, call>>

\* Block::hash on the i-th returned block
BlockHash(i) ==
    /\ pc = "idle"
    /\ observed' = [op |-> "hash", of |-> i, value |-> chain[i].hash]
    /\ UNCHANGED <<overflowChecks, now, pc, block, chain, sha, trace, runs, call>>

\* Block::index on the i-th returned block
BlockIndex(i) ==
    /\ pc = "idle"
    /\ observed' = [op |-> "index", of |-> i, value |-> chain[i].index]
    /\ UNCHANGED <<overflowChecks, now, pc, block, chain, sha, trace, runs, call>>

(* -------------------------------- caller ----------------------------- *)

\* the previous hashes a caller passes: the genesis sentinel, or the value
\* the last hash() call returned
PrevHashes == {ZeroHash} \cup (IF observed.op = "hash" THEN {observed.value} ELSE {})

Init ==
    /\ overflowChecks \in BOOLEAN
    /\ now = 0
    /\ pc = "idle"
    /\ block = NoBlock
    /\ chain = <<>>
    /\ sha = [d \in {} |-> ZeroHash]
    /\ trace = <<>>
    /\ runs = <<>>
    /\ call = NoCall
    /\ observed = NoValue

Next ==
    \/ \E index \in 0..MaxIndex, prev_hash \in PrevHashes, transactions \in Batches :
          BlockNew(index, prev_hash, transactions, "new")
    \/ BlockDefault
    \/ Iterate
    \/ Return
    \/ \E i \in 1..Len(chain) : BlockHash(i)
    \/ \E i \in 1..Len(chain) : BlockIndex(i)

Spec == Init /\ [][Next]_vars

(* ------------------------------- claims ------------------------------- *)

\* the digest input of block b had its nonce been n
DigestAt(b, n) == DigestInput([b EXCEPT !.nonce = n])

\* s is an initial segment of t
IsPrefix(s, t) == Len(s) <= Len(t) /\ \A k \in 1..Len(s) : s[k] = t[k]

\* two blocks were built from the same arguments at the same captured time
SameInputs(a, b) ==
    /\ a.index = b.index
    /\ a.prev_hash = b.prev_hash
    /\ a.transactions = b.transactions
    /\ a.time = b.time

Reverse(s) == [k \in 1..Len(s) |-> s[Len(s) + 1 - k]]

\* C1: every block returned by Block::new or Block::default has hash[0] = 69
\* and hash[1] = 69; in particular the initial all-zero hash is never returned.
C1_PredicateSatisfaction ==
    \A i \in 1..Len(chain) :
        /\ chain[i].hash[1] = 69
        /\ chain[i].hash[2] = 69
        /\ chain[i].hash # ZeroHash

\* a block was returned after a failed attempt, and one by Block::default
C1_Witness ==
    /\ Len(chain) = 2
    /\ Len(runs[1].trace) >= 2
    /\ runs[2].call.via = "default"

\* C2: the nonce recorded in a returned block equals the number of failed
\* attempts before the accepted one (0 for a block accepted at once), and the
\* first attempt is hashed with nonce 0.
C2_NonceCountsFailedAttempts ==
    /\ \A i \in 1..Len(chain) :
        /\ chain[i].nonce = Len(runs[i].trace) - 1
        /\ runs[i].trace[1].nonce = 0
    /\ trace # <<>> => trace[1].nonce = 0

\* C3: the hash of a returned block is the digest of (index, prev_hash,
\* transaction accumulator, time, n) for the smallest nonce n whose digest
\* carries the marker pair: every smaller nonce was hashed and failed, and no
\* later nonce was hashed.
C3_HashOfFirstSatisfyingNonce ==
    \A i \in 1..Len(chain) :
        \E n \in 0..MaxNonce :
            /\ DigestAt(chain[i], n) \in DOMAIN sha
            /\ sha[DigestAt(chain[i], n)] = chain[i].hash
            /\ chain[i].hash[1] = 69 /\ chain[i].hash[2] = 69
            /\ \A m \in 0..(n - 1) :
                /\ DigestAt(chain[i], m) \in DOMAIN sha
                /\ ~(sha[DigestAt(chain[i], m)][1] = 69
                     /\ sha[DigestAt(chain[i], m)][2] = 69)
            /\ Len(runs[i].trace) = n + 1
            /\ runs[i].trace[n + 1] = [nonce |-> n, hash |-> chain[i].hash]

\* a block with transactions was returned at its third attempt
C3_Witness ==
    \E i \in 1..Len(chain) :
        /\ Len(runs[i].trace) = 3
        /\ chain[i].transactions # <<>>

\* C4: two sealing runs with the same index, prev_hash, transactions and
\* captured time go through the same (nonce, hash) attempts and end with the
\* same hash and nonce.
C4_DeterminismModuloTime ==
    /\ \A i, j \in 1..Len(chain) :
        SameInputs(chain[i], chain[j]) =>
            /\ runs[i].trace = runs[j].trace
            /\ chain[i].hash = chain[j].hash
            /\ chain[i].nonce = chain[j].nonce
    /\ pc # "idle" =>
        \A i \in 1..Len(chain) :
            SameInputs(chain[i], block) => IsPrefix(trace, runs[i].trace)

\* two runs with the same inputs and time have both returned, each after a
\* failed attempt
C4_Witness ==
    /\ Len(chain) = 2
    /\ SameInputs(chain[1], chain[2])
    /\ Len(runs[1].trace) >= 2
    /\ Len(runs[2].trace) >= 2

\* C5: a returned block never changes: neither hash() nor index() nor the
\* sealing of later blocks alters any field of it.
C5_ImmutableAfterConstruction ==
    [][\A i \in 1..Len(chain) : Len(chain') >= i /\ chain'[i] = chain[i]]_vars

\* a successor sealed on the first block's hash() has returned, and hash()
\* has been called again
C5_Witness ==
    /\ Len(chain) = 2
    /\ chain[2].prev_hash = chain[1].hash
    /\ observed.op = "hash"

\* C6: a call of Block::new either returns a block or is still searching;
\* there is no other way for it to stop.
C6_SucceedsOrRunsForever == pc \in {"idle", "loop"}

\* C7: Block::default() yields what Block::new(0, [0; 64], empty) yields for
\* the same captured time, with index 0; index() returns the index the
\* caller supplied, and any index and prev_hash are taken as given.
C7_GenesisConstruction ==
    /\ \A i \in 1..Len(chain) :
        /\ chain[i].index = runs[i].call.index
        /\ chain[i].prev_hash = runs[i].call.prev_hash
        /\ chain[i].transactions = runs[i].call.transactions
        /\ runs[i].call.via = "default" =>
            /\ chain[i].index = 0
            /\ chain[i].prev_hash = ZeroHash
            /\ chain[i].transactions = <<>>
    /\ \A i, j \in 1..Len(chain) :
        /\ runs[i].call.via = "default"
        /\ runs[j].call = [via |-> "new", index |-> 0, prev_hash |-> ZeroHash,
                           transactions |-> <<>>]
        /\ chain[i].time = chain[j].time
        => chain[i] = chain[j]
    /\ observed.op = "index" =>
        /\ observed.value = runs[observed.of].call.index
        /\ runs[observed.of].call.via = "default" => observed.value = 0

\* a default block and a Block::new(0, [0; 64], empty) block of the same time
\* have returned after a failed attempt, and index() was called on the first
C7_Witness ==
    /\ Len(chain) = 2
    /\ runs[1].call.via = "default"
    /\ runs[2].call.via = "new"
    /\ SameInputs(chain[1], chain[2])
    /\ Len(runs[1].trace) >= 2
    /\ observed.op = "index" /\ observed.of = 1

\* C8: for two transactions with different digests the accumulator of
\* [t1, t2] differs from that of [t2, t1], and so does the digest input for
\* every nonce; the accumulator of the empty batch is the empty string.
C8_OrderSensitivity ==
    pc = "loop" =>
        LET txs == block.transactions
            swapped == [block EXCEPT !.transactions = Reverse(txs)]
        IN  /\ txs = <<>> => TransactionsHashes(txs) = <<>>
            /\ (Len(txs) = 2 /\ TxHash(txs[1]) # TxHash(txs[2])) =>
                /\ TransactionsHashes(txs) # TransactionsHashes(Reverse(txs))
                /\ \A n \in 0..MaxNonce : DigestAt(block, n) # DigestAt(swapped, n)

\* a batch of two transactions is being sealed and has been hashed once
C8_Witness ==
    /\ pc = "loop"
    /\ Len(block.transactions) = 2
    /\ trace # <<>>

\* C9: the nonces hashed are 0, 1, 2, ... with none skipped or repeated while
\* index, prev_hash, transactions and time stay as given; so a call in which
\* some nonce's digest carries the marker pair returns the block.
C9_SearchProgress ==
    /\ \A k \in 1..Len(trace) : trace[k].nonce = k - 1
    /\ \A i \in 1..Len(chain) :
        \A k \in 1..Len(runs[i].trace) : runs[i].trace[k].nonce = k - 1
    /\ pc # "idle" =>
        /\ block.index = call.index
        /\ block.prev_hash = call.prev_hash
        /\ block.transactions = call.transactions
        /\ block.time = now
    /\ pc = "panicked" => ~(block.hash[1] = 69 /\ block.hash[2] = 69)

\* C10: a returned block's nonce is the number of hash attempts made, the
\* accepted one included, so at least 1; and at every loop boundary with
\* nonce > 0 the stored hash is the digest computed with nonce - 1.
C10_NonceCountsAttempts ==
    /\ \A i \in 1..Len(chain) :
        /\ chain[i].nonce = Len(runs[i].trace)
        /\ chain[i].nonce >= 1
    /\ (pc = "loop" /\ block.nonce > 0) =>
        /\ DigestAt(block, block.nonce - 1) \in DOMAIN sha
        /\ block.hash = sha[DigestAt(block, block.nonce - 1)]

====
